---- MODULE Spec2Model ----
(***************************************************************************)
(* Workspace Manager: live statistics broadcast over WebSocket, the        *)
(* mutating HTTP routes that trigger it, and the JWT session gate.         *)
(* Modelled from app.js (src/unnamed/part_000, lines 492-872), the auth    *)
(* middleware (part_000, lines 875-911), routes/api/projects.js            *)
(* (src/unnamed/part_001) and the mongoose schemas (src/models/Project.js).*)
(***************************************************************************)
EXTENDS Integers, Sequences, FiniteSets, TLC

VARIABLES
    projects,   \* the Project collection, in insertion order
    tasks,      \* the Task collection, in insertion order
    statsOut,   \* the snapshot returned by the last settled computeStats()
    now,        \* the server clock, in days
    users,      \* the User collection
    jar,        \* the "token" cookie the browser holds
    issued,     \* the last token the server issued, with the identity signed
    gate,       \* the outcome of the last run of authMiddleware on the cookie
    req,        \* the HTTP requests: route, inputs, position in the handler
    clients,    \* wss.clients, in insertion order
    readyState, \* ws.readyState of every connection (0 = not yet connected)
    inbox,      \* the messages every attached live view has received, in order
    greet,      \* the position of every connection's "connection" handler
    sendFailed, \* per registered connection, the broadcast whose send to it failed
    bseq,       \* the number of broadcastStats() calls made so far
    faults      \* the number of repository failures injected so far

repoVars == <<projects, tasks>>
authVars == <<now, users, jar, issued, gate>>
wsVars == <<clients, readyState, inbox, greet, sendFailed>>
srvVars == <<req, clients, readyState, inbox, greet, sendFailed, bseq, faults>>
vars == <<projects, tasks, statsOut, now, users, jar, issued, gate,
          req, clients, readyState, inbox, greet, sendFailed, bseq, faults>>

(***************************************************************************)
(* Bounds of the model.                                                    *)
(***************************************************************************)
MaxStatTasks == 40
MaxNow == 8
MaxReqs == 2
MaxConns == 2
MaxFaults == 1

(***************************************************************************)
(* IEEE-754 binary64 arithmetic, as far as computeStats uses it.           *)
(* A positive double is [m |-> 53 bits, most significant first,            *)
(* e |-> the binary exponent of the first bit]; zero is [m |-> <<>>].      *)
(***************************************************************************)
MantissaBits == 53

DoubleZero == [m |-> <<>>, e |-> 0]

RECURSIVE NormShift(_, _, _)
NormShift(c, d, k) ==
    IF c >= d THEN [r |-> c, k |-> k] ELSE NormShift(2 * c, d, k + 1)

\* the n-bit binary numeral of q, most significant bit first
IntToBits(q, n) == [j \in 1..n |-> (q \div 2^(n - j)) % 2]

RECURSIVE BitsToIntRec(_, _)
BitsToIntRec(bits, n) ==
    IF n = 0 THEN 0 ELSE 2 * BitsToIntRec(bits, n - 1) + bits[n]

BitsToInt(bits) == BitsToIntRec(bits, Len(bits))

\* long division r / d (r < d), 52 quotient bits after the leading 1, taken
\* 13 bits at a time so that every intermediate value stays a small integer
DivBits(r, d) ==
    LET c1 == r * 8192
        c2 == (c1 % d) * 8192
        c3 == (c2 % d) * 8192
        c4 == (c3 % d) * 8192
    IN  [bits |-> <<1>> \o IntToBits(c1 \div d, 13) \o IntToBits(c2 \div d, 13)
                        \o IntToBits(c3 \div d, 13) \o IntToBits(c4 \div d, 13),
         rem  |-> c4 % d]

\* bits + 1 on the same width; carry = 1 when every bit was 1
IncBits(bits) ==
    LET n  == Len(bits)
        zs == {i \in 1..n : bits[i] = 0}
    IN  IF zs = {} THEN [bits |-> [i \in 1..n |-> 0], carry |-> 1]
        ELSE LET z == CHOOSE i \in zs : \A j \in zs : j <= i
             IN  [bits  |-> [i \in 1..n |->
                               IF i < z THEN bits[i] ELSE IF i = z THEN 1 ELSE 0],
                  carry |-> 0]

\* round to nearest, ties to even: keep is the 53 kept bits, e their exponent
RoundNearestEven(keep, e, up) ==
    IF ~up THEN [m |-> keep, e |-> e]
    ELSE LET inc == IncBits(keep)
         IN  IF inc.carry = 1
             THEN [m |-> <<1>> \o SubSeq(inc.bits, 1, Len(keep) - 1), e |-> e + 1]
             ELSE [m |-> inc.bits, e |-> e]

\* the double nearest to c / d, for naturals 0 <= c <= d, d > 0
DoubleDiv(c, d) ==
    IF c = 0 THEN DoubleZero
    ELSE LET ns  == NormShift(c, d, 0)
             gen == DivBits(ns.r - d, d)
             up  == \/ 2 * gen.rem > d
                    \/ 2 * gen.rem = d /\ gen.bits[MantissaBits] = 1
         IN  RoundNearestEven(gen.bits, 0 - ns.k, up)

\* the exact product bits * k (0 < k < 128) of a 53-bit numeral, 65 bits wide
MulBits(bits, k) ==
    LET limb(i) == IF i = 0 THEN bits[1]
                   ELSE BitsToInt(SubSeq(bits, 13 * i - 11, 13 * i + 1))
        v4 == limb(4) * k
        v3 == limb(3) * k + v4 \div 8192
        v2 == limb(2) * k + v3 \div 8192
        v1 == limb(1) * k + v2 \div 8192
        v0 == limb(0) * k + v1 \div 8192
    IN  IntToBits(v0, 13) \o IntToBits(v1 % 8192, 13) \o IntToBits(v2 % 8192, 13)
            \o IntToBits(v3 % 8192, 13) \o IntToBits(v4 % 8192, 13)

StripZeros(bits) ==
    LET ones == {i \in 1..Len(bits) : bits[i] = 1}
    IN  IF ones = {} THEN <<>>
        ELSE SubSeq(bits, CHOOSE i \in ones : \A j \in ones : i <= j, Len(bits))

\* the double nearest to x * k, for a double x and a natural 0 < k < 128
DoubleMulSmall(x, k) ==
    IF x.m = <<>> THEN DoubleZero
    ELSE LET p    == StripZeros(MulBits(x.m, k))
             len  == Len(p)
             keep == SubSeq(p, 1, MantissaBits)
             rest == SubSeq(p, MantissaBits + 1, len)
             e    == x.e - (MantissaBits - 1) + (len - 1)
             up   == /\ rest # <<>>
                     /\ rest[1] = 1
                     /\ \/ \E i \in 2..Len(rest) : rest[i] = 1
                        \/ keep[MantissaBits] = 1
         IN  RoundNearestEven(keep, e, up)

\* Math.round: the integer nearest to x, the larger one on a tie
MathRound(x) ==
    IF x.m = <<>> THEN 0
    ELSE IF x.e < 0 - 1 THEN 0
    ELSE IF x.e = 0 - 1 THEN 1
    ELSE BitsToInt(SubSeq(x.m, 1, x.e + 1)) + x.m[x.e + 2]

(***************************************************************************)
(* computeStats: the snapshot derived from the two collections.            *)
(***************************************************************************)
CountCompleted(ts) == Cardinality({i \in 1..Len(ts) : ts[i].completed})

OverallCompletion(ts) ==
    IF Len(ts) > 0
    THEN MathRound(DoubleMulSmall(DoubleDiv(CountCompleted(ts), Len(ts)), 100))
    ELSE 0

FormatProject(doc) ==
    [id |-> doc.id, name |-> doc.title, description |-> doc.description,
     progress |-> doc.progress]

StatsOf(ps, ts) ==
    [totalProjects     |-> Len(ps),
     totalTasks        |-> Len(ts),
     overallCompletion |-> OverallCompletion(ts),
     projects          |-> [i \in 1..Len(ps) |-> FormatProject(ps[i])]]

NoStats == [totalProjects |-> 0 - 1]

\* the mathematical rounding the specification speaks of: round(100 * c / m)
RoundHalfUp(num, den) == (2 * num + den) \div (2 * den)

(***************************************************************************)
(* The documents of the two collections (src/models/Project.js).           *)
(***************************************************************************)
ProjectDoc(i, title, description, progress) ==
    [id |-> i, title |-> title, description |-> description, progress |-> progress]

TaskDoc(i, title, done, projectId) ==
    [id |-> i, title |-> title, completed |-> done, projectId |-> projectId]

(***************************************************************************)
(* Session gate: jsonwebtoken sign/verify, authMiddleware, requireAuth.    *)
(* Time is counted in days; "7d" is the validity window of a token.        *)
(***************************************************************************)
JWT_SECRET == "dev-secret-key-change-me"

TokenTTL == 7

\* an ObjectId and the hex string JSON serialisation turns it into
ObjectId(n) == [oid |-> n]
ObjectIdHex(o) == [hex |-> o.oid]

\* HMAC over the encoded payload: equal exactly for equal payload and key
Hmac(payload, key) == [signed |-> payload, key |-> key]

NoPayload == [id |-> ObjectIdHex(ObjectId(0)), name |-> "", email |-> "",
              iat |-> 0, exp |-> 0]

NoToken == [fmt |-> "absent", payload |-> NoPayload, sig |-> Hmac(NoPayload, "")]

GarbageToken == [fmt |-> "garbage", payload |-> NoPayload, sig |-> Hmac(NoPayload, "")]

\* jwt.sign({id, name, email}, secret, {expiresIn: "7d"}) at time t
JwtSign(claims, secret, t) ==
    LET payload == [id    |-> ObjectIdHex(claims.id),
                    name  |-> claims.name,
                    email |-> claims.email,
                    iat   |-> t,
                    exp   |-> t + TokenTTL]
    IN  [fmt |-> "jwt", payload |-> payload, sig |-> Hmac(payload, secret)]

\* a verify that forgets the expiry check
JwtVerify_NoExpiry(token, secret, t) ==
    IF token.fmt # "jwt"
    THEN [ok |-> FALSE, err |-> "jwt malformed", decoded |-> NoPayload]
    ELSE IF token.sig # Hmac(token.payload, secret)
    THEN [ok |-> FALSE, err |-> "invalid signature", decoded |-> NoPayload]
    ELSE [ok |-> TRUE, err |-> "", decoded |-> token.payload]

\* jwt.verify(token, secret) at time t: the decoded payload, or an exception
JwtVerify(token, secret, t) ==
    IF token.fmt # "jwt"
    THEN [ok |-> FALSE, err |-> "jwt malformed", decoded |-> NoPayload]
    ELSE IF token.sig # Hmac(token.payload, secret)
    THEN [ok |-> FALSE, err |-> "invalid signature", decoded |-> NoPayload]
    ELSE IF t >= token.payload.exp
    THEN [ok |-> FALSE, err |-> "jwt expired", decoded |-> NoPayload]
    ELSE [ok |-> TRUE, err |-> "", decoded |-> token.payload]

NoUser == [anonymous |-> TRUE]

\* an authMiddleware without the try/catch around jwt.verify
authMiddleware_NoCatch(token, t) ==
    IF token.fmt = "absent"
    THEN [user |-> NoUser, next |-> TRUE]
    ELSE LET v == JwtVerify(token, JWT_SECRET, t)
         IN  IF v.ok THEN [user |-> v.decoded, next |-> TRUE]
             ELSE [user |-> NoUser, next |-> FALSE]

\* authMiddleware: [user |-> req.user, next |-> next() was called]
authMiddleware(token, t) ==
    IF token.fmt = "absent"
    THEN [user |-> NoUser, next |-> TRUE]
    ELSE LET v == JwtVerify(token, JWT_SECRET, t)
         IN  IF v.ok THEN [user |-> v.decoded, next |-> TRUE]
             ELSE [user |-> NoUser, next |-> TRUE]

\* a requireAuth that lets every request through
requireAuth_Open(user) == TRUE

\* requireAuth: TRUE when next() is called, FALSE when it redirects to /login
requireAuth(user) == user # NoUser

\* bcrypt.hash / bcrypt.compare
BcryptHash(password) == [bcrypt |-> password]
BcryptCompare(password, hash) == hash = BcryptHash(password)

(***************************************************************************)
(* The server state outside the repository: requests and connections.      *)
(***************************************************************************)
Reqs == 1..MaxReqs
Conns == 1..MaxConns

CONNECTING == 0
OPEN == 1
CLOSING == 2
CLOSED == 3

Unread == [read |-> FALSE, docs |-> <<>>]
Read(docs) == [read |-> TRUE, docs |-> docs]

NoBody == [title |-> "", name |-> "", description |-> "", progress |-> 0]

NoDoc == TaskDoc(0, "", FALSE, 0)

InitGreet == [pc |-> "none", p |-> Unread, t |-> Unread, since |-> 0]

\* f is the number of repository failures already spent
InitServer(f) ==
    /\ req = [r \in Reqs |->
                [route |-> "none", pc |-> "idle", tok |-> NoToken,
                 user |-> NoUser, body |-> NoBody, id |-> 0, doc |-> NoDoc,
                 p |-> Unread, t |-> Unread, bid |-> 0,
                 status |-> 0, loc |-> "", cause |-> "",
                 wrote |-> FALSE, casts |-> 0]]
    /\ clients = <<>>
    /\ readyState = [c \in Conns |-> CONNECTING]
    /\ inbox = [c \in Conns |-> <<>>]
    /\ greet = [c \in Conns |-> InitGreet]
    /\ sendFailed = [c \in Conns |-> 0]
    /\ bseq = 0
    /\ faults = f

(***************************************************************************)
(* The account routes, each behind app.use(authMiddleware).                *)
(***************************************************************************)
Names == {"", "ann"}
Emails == {"", "ann@x"}
Passwords == {"", "pw1", "pw2"}

NoIssued == [tok |-> NoToken, claims |-> [id |-> ObjectId(0), name |-> "", email |-> ""]]

NoGate == [ran |-> FALSE, path |-> "", tok |-> NoToken, at |-> 0, for |-> NoIssued,
           user |-> NoUser, next |-> FALSE, status |-> 0]

\* app.use(authMiddleware): every request carrying the cookie passes it
\* first; path is the route it then reaches, status the response it gets
Gate(path, status) ==
    LET out == authMiddleware(jar, now)
    IN  gate' = [ran |-> TRUE, path |-> path, tok |-> jar, at |-> now, for |-> issued,
                 user |-> out.user, next |-> out.next, status |-> status]

TokenClaims(user) == [id |-> user._id, name |-> user.name, email |-> user.email]

IssueToken(user) ==
    /\ jar' = JwtSign(TokenClaims(user), JWT_SECRET, now)
    /\ issued' = [tok |-> jar', claims |-> TokenClaims(user)]

\* POST /register
Register ==
    \E name \in Names, email \in Emails, password \in Passwords,
       confirmPassword \in Passwords :
        /\ UNCHANGED <<repoVars, statsOut, now, srvVars>>
        /\ IF name = "" \/ email = "" \/ password = ""
           THEN Gate("POST /register", 400) /\ UNCHANGED <<users, jar, issued>>
           ELSE IF password # confirmPassword
           THEN Gate("POST /register", 400) /\ UNCHANGED <<users, jar, issued>>
           ELSE IF \E u \in users : u.email = email
           THEN Gate("POST /register", 400) /\ UNCHANGED <<users, jar, issued>>
           ELSE LET user == [_id |-> ObjectId(Cardinality(users) + 1),
                             name |-> name, email |-> email,
                             passwordHash |-> BcryptHash(password)]
                IN  \/ /\ users' = users \cup {user}
                       /\ IssueToken(user)
                       /\ Gate("POST /register", 302)
                    \/ /\ Gate("POST /register", 500)      \* user.save() rejects
                       /\ UNCHANGED <<users, jar, issued>>

\* POST /login
Login ==
    \E email \in Emails, password \in Passwords :
        /\ UNCHANGED <<repoVars, statsOut, now, users, srvVars>>
        /\ IF ~ \E u \in users : u.email = email
           THEN Gate("POST /login", 400) /\ UNCHANGED <<jar, issued>>
           ELSE LET user == CHOOSE u \in users : u.email = email
                IN  IF ~BcryptCompare(password, user.passwordHash)
                    THEN Gate("POST /login", 400) /\ UNCHANGED <<jar, issued>>
                    ELSE Gate("POST /login", 302) /\ IssueToken(user)

\* POST /logout
Logout ==
    /\ Gate("POST /logout", 302)
    /\ jar' = NoToken
    /\ UNCHANGED <<repoVars, statsOut, now, users, issued, srvVars>>

\* the client alters the cookie: another payload under the old signature, a
\* longer expiry, a signature made with a key of its own, or plain garbage
Forgeries(tok) ==
    {[tok EXCEPT !.payload.email = "eve@x"],
     [tok EXCEPT !.payload.exp = @ + 1],
     [tok EXCEPT !.sig = Hmac(tok.payload, "attacker-key")],
     GarbageToken} \ {tok}

Tamper ==
    /\ jar.fmt = "jwt"
    /\ jar = issued.tok
    /\ jar' \in Forgeries(jar)
    /\ UNCHANGED <<repoVars, statsOut, now, users, issued, gate, srvVars>>

Tick ==
    /\ now < MaxNow
    /\ now' = now + 1
    /\ UNCHANGED <<repoVars, statsOut, users, jar, issued, gate, srvVars>>

\* a health probe mounted behind requireAuth
GateRequest_Protected ==
    /\ IF requireAuth(authMiddleware(jar, now).user)
       THEN Gate("GET /health", 200)
       ELSE Gate("GET /health", 302)
    /\ UNCHANGED <<repoVars, statsOut, now, users, jar, issued, srvVars>>

\* GET /health, mounted after app.use(authMiddleware) and before any
\* requireAuth: res.status(200).send("OK")
GateRequest ==
    /\ Gate("GET /health", 200)
    /\ UNCHANGED <<repoVars, statsOut, now, users, jar, issued, srvVars>>

InitAuth ==
    /\ now = 0
    /\ users = {}
    /\ jar = NoToken
    /\ issued = NoIssued
    /\ gate = NoGate

InitGate ==
    /\ projects = <<>>
    /\ tasks = <<>>
    /\ statsOut = NoStats
    /\ InitAuth
    /\ InitServer(0)

NextGate == Register \/ Login \/ Logout \/ Tamper \/ Tick \/ GateRequest

SpecGate == InitGate /\ [][NextGate]_vars

(***************************************************************************)
(* WebSocket side: broadcastStats and the "connection" handler.            *)
(***************************************************************************)
InfoMessage == [type |-> "info", data |-> NoStats, bid |-> 0]

\* JSON.stringify({type: "stats", data: stats}); bid names the broadcastStats
\* call that produced it (0 for a greeting) and is not part of the wire text
StatsMessage(stats, bid) == [type |-> "stats", data |-> stats, bid |-> bid]

\* a fan-out that stops at the first connection it cannot deliver to
RECURSIVE ForEachSend_StopOnSkip(_, _, _, _, _, _)
ForEachSend_StopOnSkip(cs, msg, failing, rs, ib, sf) ==
    IF cs = <<>> THEN [rs |-> rs, ib |-> ib, sf |-> sf]
    ELSE LET c == Head(cs)
         IN  IF rs[c] = OPEN
             THEN IF c \in failing
                  THEN [rs |-> [rs EXCEPT ![c] = CLOSING], ib |-> ib,
                        sf |-> [sf EXCEPT ![c] = msg.bid]]
                  ELSE ForEachSend_StopOnSkip(Tail(cs), msg, failing, rs,
                                   [ib EXCEPT ![c] = Append(@, msg)], sf)
             ELSE [rs |-> rs, ib |-> ib, sf |-> sf]

\* a fan-out that keeps the message for a connection that is not ready
RECURSIVE ForEachSend_Buffered(_, _, _, _, _, _)
ForEachSend_Buffered(cs, msg, failing, rs, ib, sf) ==
    IF cs = <<>> THEN [rs |-> rs, ib |-> ib, sf |-> sf]
    ELSE LET c == Head(cs)
         IN  IF rs[c] = OPEN /\ c \in failing
             THEN ForEachSend_Buffered(Tail(cs), msg, failing,
                                       [rs EXCEPT ![c] = CLOSING], ib,
                                       [sf EXCEPT ![c] = msg.bid])
             ELSE ForEachSend_Buffered(Tail(cs), msg, failing, rs,
                                       [ib EXCEPT ![c] = Append(@, msg)], sf)

\* wss.clients.forEach(client => { if (client.readyState === 1)
\* client.send(message) }): cs is what is left to visit, failing the clients
\* whose transport breaks on this send. A broken send delivers nothing and
\* leaves the socket CLOSING until its close event.
RECURSIVE ForEachSend(_, _, _, _, _, _)
ForEachSend(cs, msg, failing, rs, ib, sf) ==
    IF cs = <<>> THEN [rs |-> rs, ib |-> ib, sf |-> sf]
    ELSE LET c == Head(cs)
         IN  IF rs[c] = OPEN
             THEN IF c \in failing
                  THEN ForEachSend(Tail(cs), msg, failing,
                                   [rs EXCEPT ![c] = CLOSING], ib,
                                   [sf EXCEPT ![c] = msg.bid])
                  ELSE ForEachSend(Tail(cs), msg, failing, rs,
                                   [ib EXCEPT ![c] = Append(@, msg)], sf)
             ELSE ForEachSend(Tail(cs), msg, failing, rs, ib, sf)

SeqToSet(sq) == {sq[i] : i \in 1..Len(sq)}

Remove(sq, x) == SelectSeq(sq, LAMBDA y : y # x)

\* wss.on("connection"): the socket is in wss.clients and OPEN when the
\* handler starts; it sends "info" and starts computeStats()
Connect(c) ==
    /\ readyState[c] = CONNECTING
    /\ \A d \in Conns : d < c => readyState[d] # CONNECTING
    /\ clients' = Append(clients, c)
    /\ readyState' = [readyState EXCEPT ![c] = OPEN]
    /\ inbox' = [inbox EXCEPT ![c] = Append(@, InfoMessage)]
    /\ greet' = [greet EXCEPT ![c] = [pc |-> "stats", p |-> Unread, t |-> Unread,
                                      since |-> bseq]]
    /\ UNCHANGED <<repoVars, statsOut, authVars, req, sendFailed, bseq, faults>>

\* Project.find() of the greeting's computeStats() is answered
GreetReadProjects(c) ==
    /\ greet[c].pc = "stats"
    /\ ~greet[c].p.read
    /\ greet' = [greet EXCEPT ![c].p = Read(projects)]
    /\ UNCHANGED <<repoVars, statsOut, authVars, req, clients, readyState, inbox,
                   sendFailed, bseq, faults>>

\* Task.find() of the greeting's computeStats() is answered
GreetReadTasks(c) ==
    /\ greet[c].pc = "stats"
    /\ ~greet[c].t.read
    /\ greet' = [greet EXCEPT ![c].t = Read(tasks)]
    /\ UNCHANGED <<repoVars, statsOut, authVars, req, clients, readyState, inbox,
                   sendFailed, bseq, faults>>

\* a find() of the greeting rejects: the async handler rejects, nothing is sent
GreetReadFails(c) ==
    /\ greet[c].pc = "stats"
    /\ ~(greet[c].p.read /\ greet[c].t.read)
    /\ faults < MaxFaults
    /\ faults' = faults + 1
    /\ greet' = [greet EXCEPT ![c].pc = "rejected", ![c].p = Unread, ![c].t = Unread]
    /\ UNCHANGED <<repoVars, statsOut, authVars, req, clients, readyState, inbox,
                   sendFailed, bseq>>

\* both finds are back: ws.send of the greeting "stats" message. On a socket
\* that is no longer OPEN nothing is delivered.
GreetSend(c) ==
    /\ greet[c].pc = "stats"
    /\ greet[c].p.read /\ greet[c].t.read
    /\ LET msg  == StatsMessage(StatsOf(greet[c].p.docs, greet[c].t.docs), 0)
           stop(pc) == [greet EXCEPT ![c].pc = pc, ![c].p = Unread, ![c].t = Unread]
       IN  IF readyState[c] = OPEN
           THEN \/ /\ inbox' = [inbox EXCEPT ![c] = Append(@, msg)]
                   /\ greet' = stop("done")
                   /\ UNCHANGED readyState
                \/ /\ readyState' = [readyState EXCEPT ![c] = CLOSING]
                   /\ greet' = stop("done")
                   /\ UNCHANGED inbox
           ELSE /\ greet' = stop("sentClosed")
                /\ UNCHANGED <<readyState, inbox>>
    /\ UNCHANGED <<repoVars, statsOut, authVars, req, clients, sendFailed, bseq, faults>>

\* the peer starts closing, or the transport reports an error
Disconnect(c) ==
    /\ readyState[c] = OPEN
    /\ readyState' = [readyState EXCEPT ![c] = CLOSING]
    /\ UNCHANGED <<repoVars, statsOut, authVars, req, clients, inbox, greet,
                   sendFailed, bseq, faults>>

\* the socket's close event: ws removes the connection from wss.clients;
\* the live view is gone, and what it had received with it
CloseEvent(c) ==
    /\ readyState[c] = CLOSING
    /\ readyState' = [readyState EXCEPT ![c] = CLOSED]
    /\ clients' = Remove(clients, c)
    /\ inbox' = [inbox EXCEPT ![c] = <<>>]
    /\ sendFailed' = [sendFailed EXCEPT ![c] = 0]
    /\ UNCHANGED <<repoVars, statsOut, authVars, req, greet, bseq, faults>>

(***************************************************************************)
(* The mutating routes.  A request runs from one await to the next in one  *)
(* step; a repository call takes effect in the step that resumes after it. *)
(***************************************************************************)
\* the credentials a request may carry: none, not a JWT, a good token, one
\* past its expiry, and an expired one whose expiry the client has altered
DemoClaims == [id |-> ObjectId(1), name |-> "ann", email |-> "ann@x"]

GoodToken == JwtSign(DemoClaims, JWT_SECRET, now)

ExpiredToken == JwtSign(DemoClaims, JWT_SECRET, now - TokenTTL)

RequestTokens ==
    {NoToken, GarbageToken, GoodToken, ExpiredToken,
     [ExpiredToken EXCEPT !.payload.exp = now + 1]}

ProjectBodies ==
    {[NoBody EXCEPT !.title = "A"], [NoBody EXCEPT !.name = "B"], NoBody}

ApiBodies == {[NoBody EXCEPT !.title = "A", !.progress = 50], NoBody}

TaskTitles == {"", "t1"}

ParamIds == {1, 2}

\* what the requests of a specification may carry
AllInputs == [toks |-> RequestTokens, bodies |-> ProjectBodies,
              apiBodies |-> ApiBodies, titles |-> TaskTitles, ids |-> ParamIds]

\* well-formed requests of a logged-in user
LiveInputs == [toks |-> {GoodToken}, bodies |-> {[NoBody EXCEPT !.title = "A"]},
               apiBodies |-> {[NoBody EXCEPT !.title = "A", !.progress = 50]},
               titles |-> {"t1"}, ids |-> {1}]

\* the response is sent and the handler's locals go out of scope
Done(rq, status, loc, cause) ==
    [rq EXCEPT !.pc = "done", !.status = status, !.loc = loc, !.cause = cause,
               !.p = Unread, !.t = Unread, !.doc = NoDoc]

\* a handler head that skips its validation
Enter_NoValidation(r, route, tok, body, id, invalid, pc) ==
    LET g    == authMiddleware(tok, now)
        gated == [req[r] EXCEPT !.route = route, !.tok = tok, !.user = g.user]
        base  == [gated EXCEPT !.body = body, !.id = id]
    IN  req' = [req EXCEPT ![r] =
                  IF ~g.next THEN Done(gated, 500, "", "auth")
                  ELSE IF ~requireAuth(g.user) THEN Done(gated, 302, "/login", "auth")
                  ELSE [base EXCEPT !.pc = pc]]

\* app.use(authMiddleware), then requireAuth, then the synchronous head of
\* the handler up to its first await (pc) or its validation error (invalid)
Enter(r, route, tok, body, id, invalid, pc) ==
    LET g    == authMiddleware(tok, now)
        gated == [req[r] EXCEPT !.route = route, !.tok = tok, !.user = g.user]
        base  == [gated EXCEPT !.body = body, !.id = id]
    IN  req' = [req EXCEPT ![r] =
                  IF ~g.next THEN Done(gated, 500, "", "auth")
                  ELSE IF ~requireAuth(g.user) THEN Done(gated, 302, "/login", "auth")
                  ELSE IF invalid THEN Done(base, 400, "", "validation")
                  ELSE [base EXCEPT !.pc = pc]]

CanStart(r) ==
    /\ req[r].pc = "idle"
    /\ \A q \in Reqs : q < r => req[q].pc # "idle"

\* const projectTitle = title || name
ProjectTitle(body) == IF body.title # "" THEN body.title ELSE body.name

\* POST /projects, up to await project.save()
PostProjects(r, inp) ==
    /\ CanStart(r)
    /\ \E tok \in inp.toks, body \in inp.bodies :
          Enter(r, "POST /projects", tok, body, 0, ProjectTitle(body) = "", "save")
    /\ UNCHANGED <<repoVars, statsOut, authVars, wsVars, bseq, faults>>

\* POST /projects/:id/tasks, up to await Project.findById()
PostProjectTasks(r, inp) ==
    /\ CanStart(r)
    /\ \E tok \in inp.toks, title \in inp.titles, id \in inp.ids :
          Enter(r, "POST /projects/:id/tasks", tok, [NoBody EXCEPT !.title = title],
                id, title = "", "find")
    /\ UNCHANGED <<repoVars, statsOut, authVars, wsVars, bseq, faults>>

\* POST /tasks/:id/toggle, up to await Task.findById()
PostTaskToggle(r, inp) ==
    /\ CanStart(r)
    /\ \E tok \in inp.toks, id \in inp.ids :
          Enter(r, "POST /tasks/:id/toggle", tok, NoBody, id, FALSE, "find")
    /\ UNCHANGED <<repoVars, statsOut, authVars, wsVars, bseq, faults>>

\* POST /api/projects (mounted behind requireAuth), up to await p.save()
PostApiProjects(r, inp) ==
    /\ CanStart(r)
    /\ \E tok \in inp.toks, body \in inp.apiBodies :
          Enter(r, "POST /api/projects", tok, body, 0, FALSE, "save")
    /\ UNCHANGED <<repoVars, statsOut, authVars, wsVars, bseq, faults>>

\* a repository call of request r rejects: the catch block calls next(err)
\* and the error handler answers 500
RepoFails(r, cause) ==
    /\ faults < MaxFaults
    /\ faults' = faults + 1
    /\ req' = [req EXCEPT ![r] = Done(@, 500, "", cause)]

\* Project.findById(req.params.id) resolves
FindProject(r) ==
    /\ req[r].route = "POST /projects/:id/tasks"
    /\ req[r].pc = "find"
    /\ \/ /\ req' = [req EXCEPT ![r] =
                       IF req[r].id \in 1..Len(projects)
                       THEN [@ EXCEPT !.pc = "save"]
                       ELSE Done(@, 404, "", "notfound")]
          /\ UNCHANGED faults
       \/ RepoFails(r, "read")
    /\ UNCHANGED <<repoVars, statsOut, authVars, wsVars, bseq>>

\* Task.findById(req.params.id) resolves; task.completed = !task.completed
FindTask(r) ==
    /\ req[r].route = "POST /tasks/:id/toggle"
    /\ req[r].pc = "find"
    /\ \/ /\ req' = [req EXCEPT ![r] =
                       IF req[r].id \in 1..Len(tasks)
                       THEN [@ EXCEPT !.pc = "save",
                                      !.doc = [tasks[req[r].id] EXCEPT
                                                 !.completed = ~@]]
                       ELSE Done(@, 404, "", "notfound")]
          /\ UNCHANGED faults
       \/ RepoFails(r, "read")
    /\ UNCHANGED <<repoVars, statsOut, authVars, wsVars, bseq>>

\* a broadcastStats() that reuses the collections as they were before the write
CallBroadcast_Cached(r, doc) ==
    /\ bseq' = bseq + 1
    /\ req' = [req EXCEPT ![r].pc = "stats", ![r].wrote = TRUE, ![r].doc = doc,
                          ![r].bid = bseq + 1,
                          ![r].p = Read(projects), ![r].t = Read(tasks)]

\* the write of doc is done and broadcastStats() is called: computeStats()
\* issues Project.find() and Task.find()
CallBroadcast(r, doc) ==
    /\ bseq' = bseq + 1
    /\ req' = [req EXCEPT ![r].pc = "stats", ![r].wrote = TRUE, ![r].doc = doc,
                          ![r].bid = bseq + 1, ![r].p = Unread, ![r].t = Unread]

\* project.save() settles
SaveProject(r) ==
    /\ req[r].route = "POST /projects"
    /\ req[r].pc = "save"
    /\ \/ LET project == ProjectDoc(Len(projects) + 1, ProjectTitle(req[r].body),
                                     req[r].body.description, 0)
          IN  /\ projects' = Append(projects, project)
              /\ CallBroadcast(r, project)
          /\ UNCHANGED <<tasks, faults>>
       \/ /\ RepoFails(r, "write")
          /\ UNCHANGED <<repoVars, bseq>>
    /\ UNCHANGED <<statsOut, authVars, wsVars>>

\* task.save() of the new task settles
SaveTask(r) ==
    /\ req[r].route = "POST /projects/:id/tasks"
    /\ req[r].pc = "save"
    /\ \/ LET task == TaskDoc(Len(tasks) + 1, req[r].body.title, FALSE, req[r].id)
          IN  /\ tasks' = Append(tasks, task)
              /\ CallBroadcast(r, task)
          /\ UNCHANGED <<projects, faults>>
       \/ /\ RepoFails(r, "write")
          /\ UNCHANGED <<repoVars, bseq>>
    /\ UNCHANGED <<statsOut, authVars, wsVars>>

\* a toggle that also marks the task's project as finished
SaveToggle_TouchProject(r) ==
    /\ req[r].route = "POST /tasks/:id/toggle"
    /\ req[r].pc = "save"
    /\ \/ /\ tasks' = [tasks EXCEPT ![req[r].id].completed = req[r].doc.completed]
          /\ projects' = [i \in 1..Len(projects) |->
                            IF projects[i].id = req[r].doc.projectId
                            THEN [projects[i] EXCEPT !.progress = 100]
                            ELSE projects[i]]
          /\ CallBroadcast(r, req[r].doc)
          /\ UNCHANGED faults
       \/ /\ RepoFails(r, "write")
          /\ UNCHANGED <<repoVars, bseq>>
    /\ UNCHANGED <<statsOut, authVars, wsVars>>

\* task.save() of the toggled task settles: the flag computed from the
\* document as it was read is written
SaveToggle(r) ==
    /\ req[r].route = "POST /tasks/:id/toggle"
    /\ req[r].pc = "save"
    /\ \/ /\ tasks' = [tasks EXCEPT ![req[r].id].completed = req[r].doc.completed]
          /\ CallBroadcast(r, req[r].doc)
          /\ UNCHANGED <<projects, faults>>
       \/ /\ RepoFails(r, "write")
          /\ UNCHANGED <<repoVars, bseq>>
    /\ UNCHANGED <<statsOut, authVars, wsVars>>

\* p.save() of the API route settles; the route has no try/catch and calls
\* no broadcastStats(): a rejection leaves the request unanswered
SaveApiProject(r) ==
    /\ req[r].route = "POST /api/projects"
    /\ req[r].pc = "save"
    /\ IF req[r].body.title = ""
       THEN /\ req' = [req EXCEPT ![r].pc = "hung", ![r].cause = "validation"]
            /\ UNCHANGED <<repoVars, faults>>
       ELSE \/ /\ projects' = Append(projects,
                     ProjectDoc(Len(projects) + 1, req[r].body.title,
                                req[r].body.description, req[r].body.progress))
               /\ req' = [req EXCEPT ![r] = Done([@ EXCEPT !.wrote = TRUE], 200, "", "")]
               /\ UNCHANGED <<tasks, faults>>
            \/ /\ faults < MaxFaults
               /\ faults' = faults + 1
               /\ req' = [req EXCEPT ![r].pc = "hung", ![r].cause = "write"]
               /\ UNCHANGED repoVars
    /\ UNCHANGED <<statsOut, authVars, wsVars, bseq>>

\* Project.find() of the broadcast's computeStats() is answered
BroadcastReadProjects(r) ==
    /\ req[r].pc = "stats"
    /\ ~req[r].p.read
    /\ req' = [req EXCEPT ![r].p = Read(projects)]
    /\ UNCHANGED <<repoVars, statsOut, authVars, wsVars, bseq, faults>>

\* Task.find() of the broadcast's computeStats() is answered
BroadcastReadTasks(r) ==
    /\ req[r].pc = "stats"
    /\ ~req[r].t.read
    /\ req' = [req EXCEPT ![r].t = Read(tasks)]
    /\ UNCHANGED <<repoVars, statsOut, authVars, wsVars, bseq, faults>>

\* a find() of the broadcast rejects: broadcastStats() rejects into the catch
BroadcastReadFails(r) ==
    /\ req[r].pc = "stats"
    /\ ~(req[r].p.read /\ req[r].t.read)
    /\ RepoFails(r, "stats")
    /\ UNCHANGED <<repoVars, statsOut, authVars, wsVars, bseq>>

SuccessLocation(route) ==
    IF route = "POST /projects" THEN "/projects"
    ELSE IF route = "POST /projects/:id/tasks" THEN "/projects/:id"
    ELSE "/tasks"

\* both finds are back: broadcastStats() builds the message and fans it out,
\* then the handler redirects
BroadcastSend(r) ==
    /\ req[r].pc = "stats"
    /\ req[r].p.read /\ req[r].t.read
    /\ \E failing \in SUBSET {c \in SeqToSet(clients) : readyState[c] = OPEN} :
          LET msg == StatsMessage(StatsOf(req[r].p.docs, req[r].t.docs), req[r].bid)
              out == ForEachSend(clients, msg, failing, readyState, inbox, sendFailed)
          IN  /\ readyState' = out.rs
              /\ inbox' = out.ib
              /\ sendFailed' = out.sf
    /\ req' = [req EXCEPT ![r] =
                 Done([@ EXCEPT !.casts = @ + 1], 302, SuccessLocation(@.route), "")]
    /\ UNCHANGED <<repoVars, statsOut, authVars, clients, greet, bseq, faults>>

(***************************************************************************)
(* The server: HTTP requests and WebSocket connections side by side.       *)
(***************************************************************************)
SeedProjects == <<ProjectDoc(1, "A", "", 0)>>
SeedTasks == <<TaskDoc(1, "t1", FALSE, 1)>>

Init ==
    /\ \/ projects = <<>> /\ tasks = <<>>
       \/ projects = SeedProjects /\ tasks = SeedTasks
    /\ statsOut = NoStats
    /\ now = TokenTTL
    /\ users = {}
    /\ jar = NoToken
    /\ issued = NoIssued
    /\ gate = NoGate
    /\ InitServer(0)

Repo(r) ==
    \/ FindProject(r)
    \/ FindTask(r)
    \/ SaveProject(r)
    \/ SaveTask(r)
    \/ SaveToggle(r)
    \/ SaveApiProject(r)

Broadcast(r) ==
    \/ BroadcastReadProjects(r)
    \/ BroadcastReadTasks(r)
    \/ BroadcastReadFails(r)
    \/ BroadcastSend(r)

Socket(c) ==
    \/ Connect(c)
    \/ GreetReadProjects(c)
    \/ GreetReadTasks(c)
    \/ GreetReadFails(c)
    \/ GreetSend(c)
    \/ Disconnect(c)
    \/ CloseEvent(c)

\* the routes under every kind of request, with no live view attached
NextRoutes ==
    \/ \E r \in Reqs : PostProjects(r, AllInputs)
    \/ \E r \in Reqs : PostProjectTasks(r, AllInputs)
    \/ \E r \in Reqs : PostTaskToggle(r, AllInputs)
    \/ \E r \in Reqs : PostApiProjects(r, AllInputs)
    \/ \E r \in Reqs : Repo(r)
    \/ \E r \in Reqs : Broadcast(r)

SpecRoutes == Init /\ [][NextRoutes]_vars

\* well-formed requests of a logged-in user, in the slots rs, with the live
\* views cs attached
NextLive(rs, cs) ==
    \/ \E r \in rs : PostProjects(r, LiveInputs)
    \/ \E r \in rs : PostProjectTasks(r, LiveInputs)
    \/ \E r \in rs : PostTaskToggle(r, LiveInputs)
    \/ \E r \in rs : PostApiProjects(r, LiveInputs)
    \/ \E r \in rs : Repo(r)
    \/ \E r \in rs : Broadcast(r)
    \/ \E c \in cs : Socket(c)

\* concurrent mutations seen by one live view
Next == NextLive(Reqs, {1})

Spec == Init /\ [][Next]_vars

\* one project creation fanned out to several live views, the repository
\* answering every call
InitFanout ==
    /\ projects = SeedProjects
    /\ tasks = SeedTasks
    /\ statsOut = NoStats
    /\ now = TokenTTL
    /\ users = {}
    /\ jar = NoToken
    /\ issued = NoIssued
    /\ gate = NoGate
    /\ InitServer(MaxFaults)

NextFanout ==
    \/ PostProjects(1, LiveInputs)
    \/ SaveProject(1)
    \/ BroadcastReadProjects(1)
    \/ BroadcastReadTasks(1)
    \/ BroadcastSend(1)
    \/ \E c \in Conns : Connect(c)
    \/ \E c \in Conns : GreetReadProjects(c)
    \/ \E c \in Conns : GreetReadTasks(c)
    \/ \E c \in Conns : GreetSend(c)
    \/ \E c \in Conns : Disconnect(c)
    \/ \E c \in Conns : CloseEvent(c)

SpecFanout == InitFanout /\ [][NextFanout]_vars

(***************************************************************************)
(* Stats specification: the aggregator applied to a settled repository     *)
(* holding m tasks of which c are completed.                               *)
(***************************************************************************)
SettledTasks(c, m) == [i \in 1..m |-> TaskDoc(i, "t", i <= c, 0)]

InitStats ==
    /\ projects \in {<<>>, SeedProjects}
    /\ \E m \in 0..MaxStatTasks : \E c \in 0..m : tasks = SettledTasks(c, m)
    /\ statsOut = NoStats
    /\ InitAuth
    /\ InitServer(0)

StatsCompute ==
    /\ statsOut = NoStats
    /\ statsOut' = StatsOf(projects, tasks)
    /\ UNCHANGED <<repoVars, authVars, srvVars>>

NextStats == StatsCompute

SpecStats == InitStats /\ [][NextStats]_vars

(***************************************************************************)
(* Properties.                                                             *)
(***************************************************************************)
Finished(r) == req[r].pc \in {"done", "hung"}

\* request r was answered as a success: 200, or a redirect other than to /login
Succeeded(r) ==
    /\ req[r].pc = "done"
    /\ \/ req[r].status = 200
       \/ req[r].status = 302 /\ req[r].loc # "/login"

\* the step in which request r's broadcastStats() fans its message out
FanOutStep(r) ==
    /\ req[r].pc = "stats"
    /\ req'[r].pc = "done"
    /\ req'[r].casts = req[r].casts + 1

\* C1 (as stated): every successful mutating request, through any route that
\* performs the write, has triggered exactly one broadcast
C1_OneBroadcastPerWrite ==
    \A r \in Reqs : (Succeeded(r) /\ req[r].wrote) => req[r].casts = 1

\* C2 (as stated): a connection's first message is "info", it gets at most
\* one "info" and one greeting "stats", and the greeting "stats" precedes the
\* "stats" of every broadcast called after the connection was registered
C2_GreetingFirst ==
    \A c \in Conns :
        LET ib == inbox[c]
        IN  /\ ib # <<>> => ib[1].type = "info"
            /\ Cardinality({i \in 1..Len(ib) : ib[i].type = "info"}) <= 1
            /\ Cardinality({i \in 1..Len(ib) : ib[i].type = "stats" /\ ib[i].bid = 0}) <= 1
            /\ \A i \in 1..Len(ib) :
                  ib[i].bid > greet[c].since =>
                      \E j \in 1..(i - 1) : ib[j].type = "stats" /\ ib[j].bid = 0

\* C3 (as stated): a connection receives the "stats" messages of broadcasts
\* in the order in which broadcastStats() was called
C3_BroadcastOrder ==
    \A c \in Conns : \A i, j \in 1..Len(inbox[c]) :
        (i < j /\ inbox[c][i].bid > 0 /\ inbox[c][j].bid > 0)
            => inbox[c][i].bid < inbox[c][j].bid

\* C4 (as stated): when a broadcast fans out, no connection to which an
\* earlier send failed is still in the registry, and the request is answered
\* as a success
C4_FailedSendUnregisters ==
    [][\A r \in Reqs : FanOutStep(r) =>
          /\ \A c \in Conns : sendFailed[c] # 0 => c \notin SeqToSet(clients)
          /\ req'[r].status = 302 /\ req'[r].loc # "/login"]_vars

\* C5: in a fan-out every registered connection that is ready and whose own
\* send goes through receives the broadcast's "stats" message exactly once,
\* wherever it stands in the registry and whatever happens to the others; a
\* connection that is not ready, or whose send breaks, receives nothing
C5_IndependentDelivery ==
    [][\A r \in Reqs : FanOutStep(r) =>
          \A c \in Conns :
             IF c \in SeqToSet(clients) /\ readyState[c] = OPEN /\ readyState'[c] = OPEN
             THEN inbox'[c] = Append(inbox[c],
                     StatsMessage(StatsOf(req[r].p.docs, req[r].t.docs), req[r].bid))
             ELSE inbox'[c] = inbox[c]]_vars

\* a broadcast reached a connection registered after one whose send broke
C5_Witness ==
    \E c, d \in Conns :
        /\ sendFailed[d] # 0
        /\ \E i, j \in 1..Len(clients) : i < j /\ clients[i] = d /\ clients[j] = c
        /\ \E k \in 1..Len(inbox[c]) : inbox[c][k].bid = sendFailed[d]

\* the input of request r fails the route's validation
InvalidInput(r) ==
    \/ req[r].route = "POST /projects" /\ ProjectTitle(req[r].body) = ""
    \/ req[r].route = "POST /projects/:id/tasks" /\ req[r].body.title = ""
    \/ req[r].route = "POST /api/projects" /\ req[r].body.title = ""

\* the project or task request r addresses does not exist
MissingTarget(r) ==
    \/ req[r].route = "POST /projects/:id/tasks" /\ req[r].id > Len(projects)
    \/ req[r].route = "POST /tasks/:id/toggle" /\ req[r].id > Len(tasks)

\* request r added a document to the collection coll: it was answered as a
\* success, or its write went through and only the broadcast's read failed
Added(r, routes) ==
    /\ req[r].route \in routes
    /\ Succeeded(r) \/ (req[r].pc = "done" /\ req[r].cause = "stats")

\* C6: a mutating request that fails on validation, on a missing project or
\* task, or on a rejected write has triggered no broadcast and has written
\* nothing: it is answered 400, 404 or 500 (or, on the API route, not at
\* all), and once all requests are finished the collections hold the initial
\* documents plus one per request that got its write through
C6_FailedLeavesNoTrace ==
    /\ \A r \in Reqs :
          (Finished(r) /\ (InvalidInput(r) \/ MissingTarget(r) \/ req[r].cause = "write"))
          => /\ ~req[r].wrote
             /\ req[r].casts = 0
             /\ req[r].bid = 0
             /\ ~Succeeded(r)
    /\ (\A r \in Reqs : req[r].pc = "idle" \/ Finished(r)) =>
          /\ Len(projects) - Len(tasks) =
                Cardinality({r \in Reqs : Added(r, {"POST /projects", "POST /api/projects"})})
                - Cardinality({r \in Reqs : Added(r, {"POST /projects/:id/tasks"})})
          /\ \A i \in 1..Len(tasks) : tasks[i].id = i /\ tasks[i].title # ""
          /\ \A i \in 1..Len(projects) : projects[i].id = i /\ projects[i].title # ""

\* a task creation without a title was answered 400 after another request
\* had written
C6_Witness ==
    \E r, q \in Reqs :
        /\ req[r].route = "POST /projects/:id/tasks"
        /\ req[r].user # NoUser
        /\ req[r].body.title = ""
        /\ req[r].status = 400
        /\ ~req[r].wrote
        /\ req[q].wrote

\* the credential of request r verifies at the time of the request
TokenVerifies(tok) ==
    /\ tok.fmt = "jwt"
    /\ tok.sig = Hmac(tok.payload, JWT_SECRET)
    /\ now < tok.payload.exp

\* C8: a request whose token is absent, malformed, tampered or expired never
\* reaches a mutating handler: it is redirected to /login, writes nothing
\* and triggers no broadcast
C8_NoIdentityNoMutation ==
    \A r \in Reqs :
        (req[r].pc # "idle" /\ ~TokenVerifies(req[r].tok)) =>
            /\ req[r].pc = "done"
            /\ req[r].status = 302 /\ req[r].loc = "/login"
            /\ ~req[r].wrote
            /\ req[r].casts = 0
            /\ req[r].bid = 0

\* a request with a tampered token was redirected while another one wrote
C8_Witness ==
    \E r, q \in Reqs :
        /\ req[r].tok.fmt = "jwt"
        /\ req[r].tok.sig # Hmac(req[r].tok.payload, JWT_SECRET)
        /\ req[r].route = "POST /api/projects"
        /\ req[r].status = 302 /\ req[r].loc = "/login"
        /\ req[q].wrote

\* C7 (as stated): the settled snapshot reports round(100 * completed / M)
C7_SettledStats ==
    statsOut # NoStats =>
        /\ statsOut.totalProjects = Len(projects)
        /\ statsOut.totalTasks = Len(tasks)
        /\ statsOut.overallCompletion =
              IF Len(tasks) = 0 THEN 0
              ELSE RoundHalfUp(100 * CountCompleted(tasks), Len(tasks))

\* the token of the gated request verifies: well-formed, signed with the
\* server's secret, and presented before its expiry
GateTokenVerifies ==
    /\ gate.tok.fmt = "jwt"
    /\ gate.tok.sig = Hmac(gate.tok.payload, JWT_SECRET)
    /\ gate.at < gate.tok.payload.exp

\* C9: authMiddleware never fails the request: next() is always called, a
\* missing, malformed, tampered or expired token gives req.user = null, and
\* only a token that verifies gives an identity
C9_GateNeverFails ==
    gate.ran =>
        /\ gate.next
        /\ (gate.user # NoUser) <=> GateTokenVerifies

\* a tampered cookie went through the gate as an anonymous request
C9_Witness ==
    /\ gate.ran
    /\ gate.tok.fmt = "jwt"
    /\ gate.tok # gate.for.tok
    /\ gate.user = NoUser
    /\ gate.next

\* C10 (as stated): the issued token, verified before its expiry, yields an
\* identity equal to the identity {id, name, email} it was issued for
C10_RoundTripEqual ==
    (gate.ran /\ gate.tok.fmt = "jwt" /\ gate.tok = gate.for.tok
        /\ gate.at < gate.tok.payload.exp)
    => gate.user = gate.for.claims

\* C10 (amended): the issued token, verified before its expiry, yields the
\* decoded payload: id is the hex-string form of the subject id, name and
\* email are those signed, and iat and exp are carried along; verified at or
\* after its expiry, or after it was altered, it yields no identity
C10_RoundTripClaims ==
    gate.ran /\ gate.tok.fmt = "jwt" =>
        IF gate.tok = gate.for.tok
        THEN IF gate.at < gate.tok.payload.exp
             THEN /\ DOMAIN gate.user = {"id", "name", "email", "iat", "exp"}
                  /\ gate.user.id = ObjectIdHex(gate.for.claims.id)
                  /\ gate.user.name = gate.for.claims.name
                  /\ gate.user.email = gate.for.claims.email
                  /\ gate.user.exp = gate.user.iat + TokenTTL
             ELSE gate.user = NoUser
        ELSE gate.user = NoUser

\* the issued token was presented after its expiry and gave no identity
C10_Witness ==
    /\ gate.ran
    /\ gate.tok.fmt = "jwt"
    /\ gate.tok = gate.for.tok
    /\ gate.at >= gate.tok.payload.exp
    /\ gate.user = NoUser

\* C11 (as stated): a repository failure is always contained: a mutating
\* request whose read or write was rejected is answered with the failure
\* response and has broadcast nothing, and a greeting whose computeStats()
\* was rejected leaves no unhandled rejection behind
C11_FailuresContained ==
    /\ \A r \in Reqs :
          req[r].cause \in {"read", "write", "stats"} =>
              /\ req[r].pc = "done"
              /\ req[r].status = 500
              /\ req[r].casts = 0
    /\ \A c \in Conns : greet[c].pc # "rejected"

\* C12 (as stated): a connection enters the registry when its handshake
\* completes and leaves it exactly once, at the step in which the transport
\* signals its closure or in which a send to it fails; the registry never
\* holds a connection twice, a connection that left never comes back, and a
\* fan-out touches no connection outside the registry
C12_RegistryLifecycle ==
    [][/\ \A i, j \in 1..Len(clients') : clients'[i] = clients'[j] => i = j
       /\ \A c \in Conns :
             /\ (c \in SeqToSet(clients') /\ c \notin SeqToSet(clients))
                   <=> (readyState[c] = CONNECTING /\ readyState'[c] = OPEN)
             /\ (readyState[c] # CLOSED /\ readyState'[c] = CLOSED)
                   => (c \in SeqToSet(clients) /\ c \notin SeqToSet(clients'))
             /\ (sendFailed[c] = 0 /\ sendFailed'[c] # 0)
                   => (c \in SeqToSet(clients) /\ c \notin SeqToSet(clients'))
             /\ (c \notin SeqToSet(clients) /\ readyState[c] # CONNECTING)
                   => c \notin SeqToSet(clients')
       /\ \A r \in Reqs : FanOutStep(r) =>
             \A c \in Conns : c \notin SeqToSet(clients) => inbox'[c] = inbox[c]]_vars

\* C13: GET /health answers 200 whatever the token it carries (absent,
\* malformed, altered, expired or valid): the gate lets it through, and the
\* request writes to no collection and triggers no broadcast
C13_HealthOpen ==
    [][(gate' # gate /\ gate'.path = "GET /health") =>
          /\ gate'.status = 200
          /\ gate'.next
          /\ UNCHANGED <<repoVars, users, jar, srvVars>>]_vars

\* a health probe carrying the issued token after its expiry was answered 200
C13_Witness ==
    /\ gate.ran
    /\ gate.path = "GET /health"
    /\ gate.tok.fmt = "jwt"
    /\ gate.tok = gate.for.tok
    /\ gate.at >= gate.tok.payload.exp
    /\ gate.user = NoUser
    /\ gate.status = 200

\* the collections ps, ts as read by computeStats() hold the document doc
\* that request r has saved: the new project, the new task (whose flag a
\* toggle may have changed since), or the toggled task with the flag r
\* wrote unless another toggle has written since
Includes(r, doc, ps, ts) ==
    IF req[r].route = "POST /projects"
    THEN doc.id \in 1..Len(ps) /\ ps[doc.id] = doc
    ELSE /\ doc.id \in 1..Len(ts)
         /\ [ts[doc.id] EXCEPT !.completed = doc.completed] = doc
         /\ (/\ req[r].route = "POST /tasks/:id/toggle"
             /\ \A q \in Reqs \ {r} : req[q].route = req[r].route => ~req[q].wrote)
               => ts[doc.id] = doc

\* C14: the "stats" message a broadcast fans out is the aggregate of the
\* collections as read after the write of the request that triggered it:
\* it holds the saved project or task (with the flag as written, unless a
\* later toggle has changed it), and every connection it reaches receives
\* exactly that aggregate
C14_FreshSnapshot ==
    [][\A r \in Reqs : FanOutStep(r) =>
          /\ req[r].wrote
          /\ Includes(r, req[r].doc, req[r].p.docs, req[r].t.docs)
          /\ \A c \in Conns :
                inbox'[c] # inbox[c] =>
                    inbox'[c][Len(inbox'[c])].data =
                        StatsOf(req[r].p.docs, req[r].t.docs)]_vars

\* a live view received the broadcast of a task creation that ran while
\* another request was writing, and the snapshot counts the new task
C14_Witness ==
    \E r, q \in Reqs : \E c \in Conns :
        /\ r # q
        /\ req[r].route = "POST /projects/:id/tasks"
        /\ Succeeded(r)
        /\ req[q].wrote
        /\ \E k \in 1..Len(inbox[c]) :
              /\ inbox[c][k].bid = req[r].bid
              /\ inbox[c][k].data.totalTasks = Len(tasks)
              /\ inbox[c][k].data.totalTasks > 1

\* the number of messages of broadcast b that connection c has received
Got(ib, b) == Cardinality({k \in 1..Len(ib) : ib[k].bid = b})

\* C15: nothing is queued for a connection that is not ready: a message
\* reaches a connection only in a step that finds it OPEN (or, for "info",
\* in the step that opens it), a fan-out leaves a connection that is not
\* OPEN without its message, and once the request is answered no connection
\* receives the message of its broadcast any more
C15_DroppedNotBuffered ==
    [][\A c \in Conns :
          /\ Len(inbox'[c]) > Len(inbox[c]) =>
                \/ readyState[c] = OPEN
                \/ /\ readyState[c] = CONNECTING
                   /\ inbox'[c] = <<InfoMessage>>
          /\ \A r \in Reqs :
                /\ (FanOutStep(r) /\ readyState[c] # OPEN)
                      => Got(inbox'[c], req[r].bid) = 0
                /\ (req[r].pc = "done" /\ req[r].bid > 0)
                      => Got(inbox'[c], req[r].bid) <= Got(inbox[c], req[r].bid)]_vars

\* a broadcast went out while a registered connection was closing: the
\* request is answered, the connection is still registered and has nothing
\* of that broadcast, while another connection has received it
C15_Witness ==
    \E r \in Reqs : \E c, d \in SeqToSet(clients) :
        /\ req[r].pc = "done" /\ req[r].casts = 1
        /\ readyState[c] = CLOSING
        /\ sendFailed[c] = 0
        /\ greet[c].pc = "done"
        /\ Got(inbox[c], req[r].bid) = 0
        /\ Got(inbox[d], req[r].bid) = 1

\* nothing is in flight: every request is answered or abandoned and every
\* greeting has run to its end
Settled ==
    /\ \A r \in Reqs : req[r].pc = "idle" \/ Finished(r)
    /\ \A c \in Conns : greet[c].pc # "stats"

\* the data of the last "stats" message in ib, NoStats if there is none
LastStats(ib) ==
    LET ks == {k \in 1..Len(ib) : ib[k].type = "stats"}
    IN  IF ks = {} THEN NoStats
        ELSE ib[CHOOSE k \in ks : \A j \in ks : j <= k].data

\* C16 (as stated): once everything has settled, the last "stats" message
\* of every connection that is still open, was greeted and lost no send
\* is the snapshot of the repository as it now is
C16_EventuallyConsistent ==
    Settled =>
        \A c \in SeqToSet(clients) :
            (readyState[c] = OPEN /\ greet[c].pc = "done" /\ sendFailed[c] = 0)
                => LastStats(inbox[c]) = StatsOf(projects, tasks)

\* every task in ts belongs to a project in ps. A task is created only under
\* a project that Project.findById() has found and nothing is ever deleted,
\* so every state the repository has been in satisfies this
Coherent(ps, ts) ==
    \A i \in 1..Len(ts) : \E j \in 1..Len(ps) : ps[j].id = ts[i].projectId

\* C17 (as stated): the two collections a computeStats() call has read, for
\* a broadcast or for a greeting, are those of one state the repository has
\* been in; in particular they are coherent with each other
C17_SnapshotAtomic ==
    /\ Coherent(projects, tasks)
    /\ \A r \in Reqs :
          (req[r].pc = "stats" /\ req[r].p.read /\ req[r].t.read)
              => Coherent(req[r].p.docs, req[r].t.docs)
    /\ \A c \in Conns :
          (greet[c].pc = "stats" /\ greet[c].p.read /\ greet[c].t.read)
              => Coherent(greet[c].p.docs, greet[c].t.docs)

\* C18 (as stated): every send the server issues goes to a connection that
\* is OPEN at that moment: the "info" message to the connection just opened,
\* every delivery of a fan-out, and the greeting "stats" message issued when
\* the greeting's computeStats() has resolved
C18_SendsOnlyToOpen ==
    [][\A c \in Conns :
          /\ Len(inbox'[c]) > Len(inbox[c]) =>
                (readyState[c] = OPEN \/ readyState'[c] = OPEN)
          /\ (sendFailed[c] = 0 /\ sendFailed'[c] # 0) => readyState[c] = OPEN
          /\ (greet[c].pc = "stats" /\ greet'[c].pc \in {"done", "sentClosed"})
                => readyState[c] = OPEN]_vars

\* the toggles of task i whose save went through
Toggles(i) ==
    {r \in Reqs : req[r].route = "POST /tasks/:id/toggle" /\ req[r].id = i
                     /\ req[r].wrote}

\* C19 (as stated): every task starts not completed, so after k successful
\* toggles, sequential or concurrent, its flag is set exactly when k is odd
C19_NoLostToggle ==
    \A i \in 1..Len(tasks) :
        tasks[i].completed = (Cardinality(Toggles(i)) % 2 = 1)

\* the step in which the task.save() of toggle request r goes through
ToggleStep(r) ==
    /\ req[r].route = "POST /tasks/:id/toggle"
    /\ req[r].pc = "save"
    /\ req'[r].wrote

====
